---- MODULE Spec2Model ----
(***************************************************************************)
(* Deployify deployment engine: one Deployment record, its Bull job, the   *)
(* worker's processDeployment / executeDeployment, the cancel command, and *)
(* the LoggingService log bus with the LogsController stream.              *)
(*                                                                         *)
(* Every await of the TypeScript code is a point where other handlers may  *)
(* run, so each action below is the code between two awaits.  Steps that   *)
(* only write log lines are folded into the neighbouring step of the       *)
(* pipeline specification; the log bus has its own specification (SpecLog).*)
(* File-system removal (fs.rm) and database writes are taken to succeed.   *)
(***************************************************************************)
EXTENDS Integers, Sequences, FiniteSets, TLC

\* ---------------------------------------------------------------- constants
Attempts == 3          \* queue.add(..., { attempts: 3 })
MAX_RETRIES == 2       \* DeploymentWorker.MAX_RETRIES

\* ------------------------------------------------------------------- bounds
MaxRuns == 4           \* executions of the handler the model has room for
MaxCancels == 2        \* cancel commands issued
MaxEvents == 3         \* addLog calls for the deployment
MaxStreams == 2        \* log streams opened for the deployment
MaxCreds == 2           \* rows the credential table has room for
MaxPrefer == 2          \* entries of preferProviders

Runs == 1..MaxRuns

\* ----------------------------------------------------------- error messages
TimeoutMessage == "Deployment timeout: exceeded 15 minute limit"
CloneMessages == {"Failed to clone repository"}
CredentialMessages == {"No credentials available"}
BuildMessages == {"Build failed with exit code 1", "connect ENOENT docker.sock"}
DeployMessages == {"Deployment failed", "Deployment timeout"}

TerminalKindMessages == CredentialMessages \cup BuildMessages

NoError == "null"
NoUrl == "null"
DeployUrl == "https://site.example"

VARIABLES
  status,          \* Deployment.status ("none" before the record is saved)
  deploymentUrl,   \* Deployment.deploymentUrl
  errorMessage,    \* Deployment.errorMessage
  jobId,           \* Deployment.jobId is set
  createPc,        \* position of createDeployment
  jobState,        \* Bull job: none, waiting, active, delayed, completed, failed, removed
  attemptsMade,    \* Bull job.attemptsMade
  runs,            \* number of times the handler was invoked for the job
  pd,              \* per run: position of processDeployment
  pdErr,           \* per run: the error processDeployment caught
  pc,              \* per run: position of executeDeployment
  workspace,       \* per run: workspaceDir of executeDeployment: none, present, removed
  execErr,         \* per run: the error executeDeployment caught
  cancelPc,        \* position of cancelDeployment
  cancelCount,     \* cancel commands issued so far
  cancelDuringRun, \* a cancel command was issued while a pipeline was running
  cancelSeen,      \* deployment.status as cancelDeployment's findOne loaded it
  \* ---- log bus
  appended,        \* events in the order addLog was called
  memory,          \* per LoggingService instance: deploymentLogs entry
  file,            \* the deployment's log file: whether it exists, and its logs
  subscribers,     \* per instance: logSubscribers entry (stream ids)
  addPc,           \* per event: position of its addLog call
  addBuf,          \* per event: existingLogs read by persistLog
  streamPc,        \* per stream: position of the streamLogs observable
  replay,          \* per stream: the array getLogs resolved with from memory
  delivered,       \* per stream: events passed to observer.next, in order
  expected,        \* per stream: events in the log file when the stream was opened
  audience,        \* per event: streams subscribed when its addLog was called
  \* ---- credential vault
  creds,           \* user_credentials table: per id the row, or NoCred
  nextId,          \* rows saved so far + 1 (ids are never reused)
  credPc,          \* per createCredentials call: its position
  credDto,         \* per createCredentials call: userId and dto
  valPc,           \* per credential: validateCredentials is idle, asking the
                   \* provider, or has returned after the provider's answer
  valEntity,       \* per credential: the entity validateCredentials loaded
  wStep,           \* the deployment's pipeline position around credentials
  wProvider,       \* selectedProvider
  wCredentialId,   \* job.data.credentialId (0 when absent)
  wLoadedFrom,     \* the row the pipeline's credentials were decrypted from
  wMeta,           \* deployResult.metadata, logged by logSuccess
  \* ---- analysis and provider selection
  selPc,           \* idle, analyzed (analyzeProject returned), selected
  wsFiles,         \* entries of the workspace directory
  wsDeps,          \* keys of package.json dependencies
  wsManifest,      \* package.json exists and parses
  wsScript,        \* scripts.build of package.json (NoScript when absent)
  analysis,        \* projectAnalysis
  reqProvider,     \* job.data.provider
  reqPrefer,       \* job.data.preferProviders
  selectedProvider, \* selectedProvider of executeDeployment
  \* ---- cloneRepository
  clonePc,         \* idle, cloning (a git.clone is running), returned, thrown
  cloneBranch,     \* the branch argument
  remoteBranches,  \* branches the remote repository has
  attempts,        \* the --branch arguments of the git.clone calls so far
  \* ---- build step
  bPc,             \* position of the build step of executeDeployment
  container,       \* the build container: none, created, running, exited, removed
  containerCmd,    \* the commands joined into the container's Cmd
  buildResult,     \* buildResult.success: none, success, failure
  artifactPath,    \* artifactPath computed by createArtifact
  buildPath,       \* buildPath of executeDeployment
  reqConfigDir,    \* job.data.config.buildDirectory (NoDir when absent)
  handed,          \* projectPath and config.buildDirectory given to the adapter
  record,          \* the Deployment row's columns provider, detectedStack and
                   \* deploymentUrl (NoRecord before createDeployment saves it)
  \* ---- intake
  intakePc,        \* POST /deploy: idle, accepted (the service is called), rejected
  intakeUrl        \* createDeploymentDto.repoUrl: its start and the rest

depVars == <<status, deploymentUrl, errorMessage, jobId, createPc, jobState,
             attemptsMade, runs, pd, pdErr, pc, workspace, execErr,
             cancelPc, cancelCount, cancelDuringRun,
                 cancelSeen>>
logVars == <<appended, memory, file, subscribers, addPc, addBuf, streamPc,
             replay, delivered, expected, audience>>
credVars == <<creds, nextId, credPc, credDto, valPc, valEntity, wStep,
              wProvider, wCredentialId, wLoadedFrom, wMeta>>
selVars == <<selPc, wsFiles, wsDeps, wsManifest, wsScript, analysis,
             reqProvider, reqPrefer, selectedProvider>>
cloneVars == <<clonePc, cloneBranch, remoteBranches, attempts>>
buildVars == <<bPc, container, containerCmd, buildResult, artifactPath,
              buildPath, reqConfigDir, handed, record>>
intakeVars == <<intakePc, intakeUrl>>
unitVars == <<selVars, cloneVars, buildVars, intakeVars>>
coreVars == <<depVars, logVars, credVars>>
vars == <<depVars, logVars, credVars, unitVars>>

\* ===================================================== Deployment pipeline

TerminalStatuses == {"success", "failed", "cancelled"}
RunningStatuses == {"cloning", "building", "deploying"}

\* 'timeout' is a substring of the message (error.message.includes('timeout'))
MessageIncludesTimeout(msg) == msg \in {TimeoutMessage, "Deployment timeout"}

ExecSettled(r) == pc[r] \in {"resolved", "rejected"}
ExecRunning(r) == pc[r] \notin {"idle", "resolved", "rejected"}
PdFinished(r) == pd[r] \in {"done", "thrown"}

\* DeploymentService.updateDeploymentStatus: writes status and the fields of
\* data, leaves every other column as it is.
updateDeploymentStatus(newStatus, data) ==
  /\ status' = newStatus
  /\ deploymentUrl' = IF "deploymentUrl" \in DOMAIN data
                      THEN data.deploymentUrl ELSE deploymentUrl
  /\ errorMessage' = IF "errorMessage" \in DOMAIN data
                     THEN data.errorMessage ELSE errorMessage

NoData == [x \in {} |-> "null"]

InitDep ==
  /\ status = "none"
  /\ deploymentUrl = NoUrl
  /\ errorMessage = NoError
  /\ jobId = FALSE
  /\ createPc = "init"
  /\ jobState = "none"
  /\ attemptsMade = 0
  /\ runs = 0
  /\ pd = [r \in Runs |-> "idle"]
  /\ pdErr = [r \in Runs |-> NoError]
  /\ pc = [r \in Runs |-> "idle"]
  /\ workspace = [r \in Runs |-> "none"]
  /\ execErr = [r \in Runs |-> NoError]
  /\ cancelPc = "idle"
  /\ cancelCount = 0
  /\ cancelDuringRun = FALSE
  /\ cancelSeen = "none"

\* ------------------------------------------------ createDeployment (intake)
CreateSave ==
  /\ createPc = "init"
  /\ createPc' = "saved"
  /\ status' = "queued"
  /\ UNCHANGED <<deploymentUrl, errorMessage, jobId, jobState, attemptsMade,
                 runs, pd, pdErr, pc, workspace, execErr, cancelPc,
                 cancelCount, cancelDuringRun,
                 cancelSeen>>
  /\ UNCHANGED <<logVars, credVars, unitVars>>

CreateEnqueue ==
  /\ createPc = "saved"
  /\ createPc' = "enqueued"
  /\ jobState' = "waiting"
  /\ UNCHANGED <<status, deploymentUrl, errorMessage, jobId, attemptsMade,
                 runs, pd, pdErr, pc, workspace, execErr, cancelPc,
                 cancelCount, cancelDuringRun,
                 cancelSeen>>
  /\ UNCHANGED <<logVars, credVars, unitVars>>

CreateSetJobId ==
  /\ createPc = "enqueued"
  /\ createPc' = "done"
  /\ jobId' = TRUE
  /\ UNCHANGED <<status, deploymentUrl, errorMessage, jobState, attemptsMade,
                 runs, pd, pdErr, pc, workspace, execErr, cancelPc,
                 cancelCount, cancelDuringRun,
                 cancelSeen>>
  /\ UNCHANGED <<logVars, credVars, unitVars>>

\* ------------------------------------------------------------ Bull queue
\* A worker takes the waiting job and calls processDeployment, which arms the
\* timer and starts executeDeployment.
QueueTake ==
  /\ jobState = "waiting"
  /\ runs < MaxRuns
  /\ runs' = runs + 1
  /\ jobState' = "active"
  /\ pd' = [pd EXCEPT ![runs + 1] = "racing"]
  /\ pc' = [pc EXCEPT ![runs + 1] = "setCloning"]
  /\ UNCHANGED <<status, deploymentUrl, errorMessage, jobId, createPc,
                 attemptsMade, pdErr, workspace, execErr, cancelPc,
                 cancelCount, cancelDuringRun,
                 cancelSeen>>
  /\ UNCHANGED <<logVars, credVars, unitVars>>

\* The exponential backoff delay of a retried job has elapsed.
BackoffElapsed ==
  /\ jobState = "delayed"
  /\ jobState' = "waiting"
  /\ UNCHANGED <<status, deploymentUrl, errorMessage, jobId, createPc,
                 attemptsMade, runs, pd, pdErr, pc, workspace, execErr,
                 cancelPc, cancelCount, cancelDuringRun,
                 cancelSeen>>
  /\ UNCHANGED <<logVars, credVars, unitVars>>

\* Bull, when the handler throws: attemptsMade is incremented and the job is
\* delayed for a retry while attempts remain, otherwise it is failed.
MoveToFailed ==
  /\ attemptsMade' = attemptsMade + 1
  /\ jobState' = IF attemptsMade + 1 < Attempts THEN "delayed" ELSE "failed"

\* Bull, when the handler returns.
MoveToCompleted ==
  /\ jobState' = "completed"
  /\ attemptsMade' = attemptsMade

recVars == <<status, deploymentUrl, errorMessage>>
createVars == <<jobId, createPc>>
jobVars == <<jobState, attemptsMade>>
cancelVars == <<cancelPc, cancelCount, cancelDuringRun,
                 cancelSeen>>

\* ------------------------------------------- executeDeployment, step by step
\* Step 1: updateDeploymentStatus(deploymentId, 'cloning')
ExecSetCloning(r) ==
  /\ pc[r] = "setCloning"
  /\ updateDeploymentStatus("cloning", NoData)
  /\ pc' = [pc EXCEPT ![r] = "clone"]
  /\ UNCHANGED <<createVars, jobVars, runs, pd, pdErr, workspace, execErr,
                 cancelVars>>
  /\ UNCHANGED <<logVars, credVars, unitVars>>

\* workspaceDir = await cloneRepository(...): on failure cloneRepository has
\* removed its own directory and workspaceDir stays null.
ExecClone(r) ==
  /\ pc[r] = "clone"
  /\ \/ /\ workspace' = [workspace EXCEPT ![r] = "present"]
        /\ pc' = [pc EXCEPT ![r] = "setBuilding"]
        /\ UNCHANGED execErr
     \/ \E m \in CloneMessages :
        /\ execErr' = [execErr EXCEPT ![r] = m]
        /\ pc' = [pc EXCEPT ![r] = "catch"]
        /\ UNCHANGED workspace
  /\ UNCHANGED <<recVars, createVars, jobVars, runs, pd, pdErr, cancelVars>>
  /\ UNCHANGED <<logVars, credVars, unitVars>>

\* Step 2: updateDeploymentStatus(deploymentId, 'building')
ExecSetBuilding(r) ==
  /\ pc[r] = "setBuilding"
  /\ updateDeploymentStatus("building", NoData)
  /\ pc' = [pc EXCEPT ![r] = "analyze"]
  /\ UNCHANGED <<createVars, jobVars, runs, pd, pdErr, workspace, execErr,
                 cancelVars>>
  /\ UNCHANGED <<logVars, credVars, unitVars>>

\* analyzeProject and provider selection
ExecAnalyze(r) ==
  /\ pc[r] = "analyze"
  /\ pc' = [pc EXCEPT ![r] = "credentials"]
  /\ UNCHANGED <<recVars, createVars, jobVars, runs, pd, pdErr, workspace,
                 execErr, cancelVars>>
  /\ UNCHANGED <<logVars, credVars, unitVars>>

\* Step 3.5: credentials are loaded, or an Error is thrown
ExecCredentials(r) ==
  /\ pc[r] = "credentials"
  /\ \/ /\ pc' = [pc EXCEPT ![r] = "build"]
        /\ UNCHANGED execErr
     \/ \E m \in CredentialMessages :
        /\ execErr' = [execErr EXCEPT ![r] = m]
        /\ pc' = [pc EXCEPT ![r] = "catch"]
  /\ UNCHANGED <<recVars, createVars, jobVars, runs, pd, pdErr, workspace,
                 cancelVars>>
  /\ UNCHANGED <<logVars, credVars, unitVars>>

\* Step 4: buildProject (or the build is skipped); a result without success
\* is thrown as new Error(buildResult.error)
ExecBuild(r) ==
  /\ pc[r] = "build"
  /\ \/ /\ pc' = [pc EXCEPT ![r] = "setDeploying"]
        /\ UNCHANGED execErr
     \/ \E m \in BuildMessages :
        /\ execErr' = [execErr EXCEPT ![r] = m]
        /\ pc' = [pc EXCEPT ![r] = "catch"]
  /\ UNCHANGED <<recVars, createVars, jobVars, runs, pd, pdErr, workspace,
                 cancelVars>>
  /\ UNCHANGED <<logVars, credVars, unitVars>>

\* Step 6: updateDeploymentStatus(deploymentId, 'deploying')
ExecSetDeploying(r) ==
  /\ pc[r] = "setDeploying"
  /\ updateDeploymentStatus("deploying", NoData)
  /\ pc' = [pc EXCEPT ![r] = "deploy"]
  /\ UNCHANGED <<createVars, jobVars, runs, pd, pdErr, workspace, execErr,
                 cancelVars>>
  /\ UNCHANGED <<logVars, credVars, unitVars>>

\* deployToProvider; a result without success is thrown as new Error
ExecDeploy(r) ==
  /\ pc[r] = "deploy"
  /\ \/ /\ pc' = [pc EXCEPT ![r] = "finalize"]
        /\ UNCHANGED execErr
     \/ \E m \in DeployMessages :
        /\ execErr' = [execErr EXCEPT ![r] = m]
        /\ pc' = [pc EXCEPT ![r] = "catch"]
  /\ UNCHANGED <<recVars, createVars, jobVars, runs, pd, pdErr, workspace,
                 cancelVars>>
  /\ UNCHANGED <<logVars, credVars, unitVars>>

\* Step 7: updateDeploymentStatus(deploymentId, 'success', { deploymentUrl })
ExecFinalize(r) ==
  /\ pc[r] = "finalize"
  /\ updateDeploymentStatus("success", [deploymentUrl |-> DeployUrl])
  /\ pc' = [pc EXCEPT ![r] = "logSuccess"]
  /\ UNCHANGED <<createVars, jobVars, runs, pd, pdErr, workspace, execErr,
                 cancelVars>>
  /\ UNCHANGED <<logVars, credVars, unitVars>>

\* await logSuccess(...) after the record was finalized
ExecLogSuccess(r) ==
  /\ pc[r] = "logSuccess"
  /\ pc' = [pc EXCEPT ![r] = "finally"]
  /\ UNCHANGED <<recVars, createVars, jobVars, runs, pd, pdErr, workspace,
                 execErr, cancelVars>>
  /\ UNCHANGED <<logVars, credVars, unitVars>>

\* catch: updateDeploymentStatus(deploymentId, 'failed', { errorMessage })
ExecCatch(r) ==
  /\ pc[r] = "catch"
  /\ updateDeploymentStatus("failed", [errorMessage |-> execErr[r]])
  /\ pc' = [pc EXCEPT ![r] = "catchLog"]
  /\ UNCHANGED <<createVars, jobVars, runs, pd, pdErr, workspace, execErr,
                 cancelVars>>
  /\ UNCHANGED <<logVars, credVars, unitVars>>

\* catch: await logError(...), then throw error
ExecCatchLog(r) ==
  /\ pc[r] = "catchLog"
  /\ pc' = [pc EXCEPT ![r] = "finally"]
  /\ UNCHANGED <<recVars, createVars, jobVars, runs, pd, pdErr, workspace,
                 execErr, cancelVars>>
  /\ UNCHANGED <<logVars, credVars, unitVars>>

\* finally: if (workspaceDir) await containerService.cleanup(workspaceDir)
ExecFinally(r) ==
  /\ pc[r] = "finally"
  /\ workspace' = [workspace EXCEPT ![r] =
                     IF workspace[r] = "present" THEN "removed" ELSE workspace[r]]
  /\ pc' = [pc EXCEPT ![r] = "settling"]
  /\ UNCHANGED <<recVars, createVars, jobVars, runs, pd, pdErr, execErr,
                 cancelVars>>
  /\ UNCHANGED <<logVars, credVars, unitVars>>

\* The promise of executeDeployment settles.  While processDeployment is still
\* awaiting Promise.race its continuation runs at once: on a resolved promise
\* it clears the timer and returns (finally: its own workspaceDir is null);
\* on a rejected one it enters catch and awaits logError.  After the timer has
\* won the race nobody observes the settlement.
ExecSettle(r) ==
  /\ pc[r] = "settling"
  /\ pc' = [pc EXCEPT ![r] = IF execErr[r] = NoError THEN "resolved" ELSE "rejected"]
  /\ IF pd[r] = "racing"
     THEN IF execErr[r] = NoError
          THEN /\ pd' = [pd EXCEPT ![r] = "done"]
               /\ MoveToCompleted
               /\ UNCHANGED pdErr
          ELSE /\ pd' = [pd EXCEPT ![r] = "catchLog"]
               /\ pdErr' = [pdErr EXCEPT ![r] = execErr[r]]
               /\ UNCHANGED jobVars
     ELSE UNCHANGED <<pd, pdErr, jobVars>>
  /\ UNCHANGED <<recVars, createVars, runs, workspace, execErr, cancelVars>>
  /\ UNCHANGED <<logVars, credVars, unitVars>>

\* --------------------------------------------------------- processDeployment
\* The setTimeout callback rejects timeoutPromise before executeDeployment has
\* settled: Promise.race rejects, processDeployment enters catch and awaits
\* logError.  executeDeployment is not interrupted.
TimerFire(r) ==
  /\ pd[r] = "racing"
  /\ ~ExecSettled(r)
  /\ pd' = [pd EXCEPT ![r] = "catchLog"]
  /\ pdErr' = [pdErr EXCEPT ![r] = TimeoutMessage]
  /\ UNCHANGED <<recVars, createVars, jobVars, runs, pc, workspace, execErr,
                 cancelVars>>
  /\ UNCHANGED <<logVars, credVars, unitVars>>

\* Variants of the retry decision with one of its two conditions dropped.
ShouldRetry_TimeoutRetried(attemptCount, msg) ==
  attemptCount < MAX_RETRIES

ShouldRetry_IgnoreCount(attemptCount, msg) ==
  ~MessageIncludesTimeout(msg)

\* attemptCount < this.MAX_RETRIES && !error.message.includes('timeout')
ShouldRetry(attemptCount, msg) ==
  attemptCount < MAX_RETRIES /\ ~MessageIncludesTimeout(msg)

\* catch: throw error, Bull handles the retry
PdRetry(r) ==
  /\ pd[r] = "catchLog"
  /\ ShouldRetry(attemptsMade, pdErr[r])
  /\ pd' = [pd EXCEPT ![r] = "thrown"]
  /\ MoveToFailed
  /\ UNCHANGED <<recVars, createVars, runs, pdErr, pc, workspace, execErr,
                 cancelVars>>
  /\ UNCHANGED <<logVars, credVars, unitVars>>

\* catch: updateDeploymentStatus(deploymentId, 'failed', { errorMessage });
\* finally: workspaceDir of processDeployment is never assigned, nothing is
\* cleaned up here; the handler returns.
PdMarkFailed(r) ==
  /\ pd[r] = "catchLog"
  /\ ~ShouldRetry(attemptsMade, pdErr[r])
  /\ updateDeploymentStatus("failed", [errorMessage |-> pdErr[r]])
  /\ pd' = [pd EXCEPT ![r] = "done"]
  /\ MoveToCompleted
  /\ UNCHANGED <<createVars, runs, pdErr, pc, workspace, execErr, cancelVars>>
  /\ UNCHANGED <<logVars, credVars, unitVars>>

\* ---------------------------------------------------------- cancelDeployment
\* findOne, then job.remove() when the record has a jobId and the job exists.
\* Bull refuses to remove a job that a worker holds (active): remove() throws
\* and the error is caught and logged.
CancelFindRemove ==
  /\ cancelPc = "idle"
  /\ cancelCount < MaxCancels
  /\ status # "none"
  /\ cancelCount' = cancelCount + 1
  /\ cancelPc' = "update"
  /\ cancelSeen' = status
  /\ cancelDuringRun' = (cancelDuringRun \/
                           (status \in RunningStatuses /\ \E r \in Runs : ExecRunning(r)))
  /\ jobState' = IF jobId /\ jobState \in {"waiting", "delayed", "completed", "failed"}
                 THEN "removed" ELSE jobState
  /\ UNCHANGED <<recVars, createVars, attemptsMade, runs, pd, pdErr, pc,
                 workspace, execErr>>
  /\ UNCHANGED <<logVars, credVars, unitVars>>

\* deploymentRepository.update(id, { status: 'cancelled', completedAt })
CancelUpdate ==
  /\ cancelPc = "update"
  /\ cancelPc' = "idle"
  /\ cancelSeen' = "none"
  /\ status' = "cancelled"
  /\ UNCHANGED <<deploymentUrl, errorMessage, createVars, jobVars, runs, pd,
                 pdErr, pc, workspace, execErr, cancelCount, cancelDuringRun>>
  /\ UNCHANGED <<logVars, credVars, unitVars>>

\* ================================================================= Log bus
\* The worker module and the deployment module each provide LoggingService,
\* so the DeploymentWorker and the LogsController hold different instances;
\* both read and write the same log file of the deployment.
WorkerInst == "worker"
ApiInst == "api"
Inst == {WorkerInst, ApiInst}

Events == 1..MaxEvents      \* event e is the e-th addLog call
Streams == 1..MaxStreams

Range(seq) == {seq[k] : k \in 1..Len(seq)}

InitLog ==
  /\ appended = <<>>
  /\ memory = [i \in Inst |-> <<>>]
  /\ file = [exists |-> FALSE, logs |-> <<>>]
  /\ subscribers = [i \in Inst |-> <<>>]
  /\ addPc = [e \in Events |-> "idle"]
  /\ addBuf = [e \in Events |-> <<>>]
  /\ streamPc = [s \in Streams |-> "idle"]
  /\ replay = [s \in Streams |-> <<>>]
  /\ delivered = [s \in Streams |-> <<>>]
  /\ expected = [s \in Streams |-> {}]
  /\ audience = [e \in Events |-> {}]

\* fs.readFile + JSON.parse of the log file; a missing file throws
ReadLogFile == IF ~file.exists THEN <<>> ELSE file.logs

\* A notification that goes to the callbacks registered when addLog was
\* called.
notifySubscribers_AtCallTime(i, e) ==
  delivered' = [s \in Streams |->
                  IF s \in audience[e]
                  THEN Append(delivered[s], e) ELSE delivered[s]]

\* notifySubscribers: every callback registered on the instance gets the log
notifySubscribers(i, e) ==
  delivered' = [s \in Streams |->
                  IF s \in Range(subscribers[i])
                  THEN Append(delivered[s], e) ELSE delivered[s]]

\* addLog up to its await: the log is pushed onto the instance's in-memory
\* array and persistLog starts reading the file.  The worker calls addLog
\* without awaiting it for build output, so calls may overlap.
AddLogPush(e) ==
  /\ e = Len(appended) + 1
  /\ addPc[e] = "idle"
  /\ appended' = Append(appended, e)
  /\ memory' = [memory EXCEPT ![WorkerInst] = Append(@, e)]
  /\ addPc' = [addPc EXCEPT ![e] = "read"]
  /\ audience' = [audience EXCEPT ![e] = Range(subscribers[WorkerInst])
                                          \cup Range(subscribers[ApiInst])]
  /\ UNCHANGED <<file, subscribers, addBuf, streamPc, replay, delivered, expected>>
  /\ UNCHANGED <<depVars, credVars, unitVars>>

\* persistLog: readFile has completed; existingLogs.push(log); writeFile starts
PersistRead(e) ==
  /\ addPc[e] = "read"
  /\ addBuf' = [addBuf EXCEPT ![e] = Append(ReadLogFile, e)]
  /\ addPc' = [addPc EXCEPT ![e] = "write"]
  /\ UNCHANGED <<appended, memory, file, subscribers, streamPc, replay,
                 delivered, expected, audience>>
  /\ UNCHANGED <<depVars, credVars, unitVars>>

\* persistLog: writeFile has completed; addLog goes on to notifySubscribers
PersistWriteNotify(e) ==
  /\ addPc[e] = "write"
  /\ file' = [exists |-> TRUE, logs |-> addBuf[e]]
  /\ notifySubscribers(WorkerInst, e)
  /\ addPc' = [addPc EXCEPT ![e] = "done"]
  /\ UNCHANGED <<appended, memory, subscribers, addBuf, streamPc, replay, expected, audience>>
  /\ UNCHANGED <<depVars, credVars, unitVars>>

\* streamLogs, the subscribe function of the Observable: getLogs is called (it
\* resolves with the in-memory array when that is non-empty, otherwise it
\* starts loadLogsFromFile), then subscribeToLogs registers the callback.
StreamOpen(s) ==
  /\ streamPc[s] = "idle"
  /\ IF memory[ApiInst] # <<>>
     THEN /\ streamPc' = [streamPc EXCEPT ![s] = "replayMemory"]
          /\ replay' = [replay EXCEPT ![s] = memory[ApiInst]]
     ELSE /\ streamPc' = [streamPc EXCEPT ![s] = "loading"]
          /\ UNCHANGED replay
  /\ subscribers' = [subscribers EXCEPT ![ApiInst] = Append(@, s)]
  /\ expected' = [expected EXCEPT ![s] = Range(ReadLogFile)]
  /\ UNCHANGED <<appended, memory, file, addPc, addBuf, delivered, audience>>
  /\ UNCHANGED <<depVars, credVars, unitVars>>

\* getLogs(...).then: every log of the resolved array goes to observer.next
StreamReplayMemory(s) ==
  /\ streamPc[s] = "replayMemory"
  /\ delivered' = [delivered EXCEPT ![s] = @ \o replay[s]]
  /\ streamPc' = [streamPc EXCEPT ![s] = "live"]
  /\ UNCHANGED <<appended, memory, file, subscribers, addPc, addBuf, replay, expected, audience>>
  /\ UNCHANGED <<depVars, credVars, unitVars>>

\* loadLogsFromFile: readFile has completed.  The parsed logs replace the
\* instance's in-memory entry and are replayed; a missing file yields [].
StreamLoadFromFile(s) ==
  /\ streamPc[s] = "loading"
  /\ memory' = IF ~file.exists THEN memory
               ELSE [memory EXCEPT ![ApiInst] = file.logs]
  /\ delivered' = [delivered EXCEPT ![s] = @ \o ReadLogFile]
  /\ streamPc' = [streamPc EXCEPT ![s] = "live"]
  /\ UNCHANGED <<appended, file, subscribers, addPc, addBuf, replay, expected, audience>>
  /\ UNCHANGED <<depVars, credVars, unitVars>>

\* The client disconnects: unsubscribe() removes the callback; a closed
\* observer ignores a replay that is still pending.
StreamClose(s) ==
  /\ streamPc[s] \in {"replayMemory", "loading", "live"}
  /\ subscribers' = [subscribers EXCEPT ![ApiInst] = SelectSeq(@, LAMBDA x : x # s)]
  /\ streamPc' = [streamPc EXCEPT ![s] = "closed"]
  /\ UNCHANGED <<appended, memory, file, addPc, addBuf, replay, delivered, expected, audience>>
  /\ UNCHANGED <<depVars, credVars, unitVars>>

\* persistLog: writeFile has thrown (disk full, permissions).  The catch of
\* persistLog logs the error and returns, so addLog goes on to
\* notifySubscribers and resolves; the log stays in the in-memory array.
PersistWriteFailNotify(e) ==
  /\ addPc[e] = "write"
  /\ notifySubscribers(WorkerInst, e)
  /\ addPc' = [addPc EXCEPT ![e] = "doneUnwritten"]
  /\ UNCHANGED <<appended, memory, file, subscribers, addBuf, streamPc, replay,
                 expected, audience>>
  /\ UNCHANGED <<depVars, credVars, unitVars>>

\* getLogs: the instance's in-memory array when it is non-empty, otherwise
\* what loadLogsFromFile reads from the file
getLogs(i) == IF memory[i] # <<>> THEN memory[i] ELSE ReadLogFile

\* subscribeToLogs called on the instance that addLog is called on: the
\* callback is registered and nothing is replayed
Subscribe(s) ==
  /\ streamPc[s] = "idle"
  /\ subscribers' = [subscribers EXCEPT ![WorkerInst] = Append(@, s)]
  /\ streamPc' = [streamPc EXCEPT ![s] = "subscribed"]
  /\ UNCHANGED <<appended, memory, file, addPc, addBuf, replay, delivered,
                 expected, audience>>
  /\ UNCHANGED <<depVars, credVars, unitVars>>

\* the unsubscribe function subscribeToLogs returned
Unsubscribe(s) ==
  /\ streamPc[s] = "subscribed"
  /\ subscribers' = [subscribers EXCEPT ![WorkerInst] = SelectSeq(@, LAMBDA x : x # s)]
  /\ streamPc' = [streamPc EXCEPT ![s] = "closed"]
  /\ UNCHANGED <<appended, memory, file, addPc, addBuf, replay, delivered,
                 expected, audience>>
  /\ UNCHANGED <<depVars, credVars, unitVars>>

\* ========================================================= Credential vault
CredIds == 1..MaxCreds
Users == {"alice", "bob"}
Providers == {"netlify", "vercel"}

NoSite == "undefined"
CredSite == "site-of-credential"
NewSite == "site-created"
Token == "token"

\* dto.credentials: NetlifyCredentials { accessToken, siteId? } or
\* VercelCredentials { token, ... }; the token field is called token here
Plaintexts(p) ==
  IF p = "netlify"
  THEN {[token |-> Token, siteId |-> NoSite], [token |-> Token, siteId |-> CredSite]}
  ELSE {[token |-> Token, siteId |-> NoSite]}

NoPlain == [token |-> "", siteId |-> NoSite]
NoCred == [stored |-> FALSE, userId |-> "", provider |-> "", isActive |-> FALSE,
           isValid |-> FALSE, plain |-> NoPlain]
NoMeta == [siteId |-> NoSite]

\* what the provider's user endpoint does with the token
ProviderResponses == {"ok", "rejected", "unreachable"}

InitCred ==
  /\ creds = [c \in CredIds |-> NoCred]
  /\ nextId = 1
  /\ credPc = [k \in CredIds |-> "idle"]
  /\ credDto = [k \in CredIds |-> NoCred]
  /\ valPc = [c \in CredIds |-> "idle"]
  /\ valEntity = [c \in CredIds |-> NoCred]
  /\ wStep = "idle"
  /\ wProvider = ""
  /\ wCredentialId = 0
  /\ wLoadedFrom = NoCred
  /\ wMeta = NoMeta

\* A validation that treats an unreachable provider as a successful one.
IsValidResponse_UnreachableValid(resp) ==
  resp # "rejected"

\* validateCredentialsWithProvider: NetlifyService/VercelService
\* .validateCredentials return response.status === 200 and return false from
\* their catch, whether the request was answered with an error status or
\* never reached the provider.
IsValidResponse(resp) ==
  resp = "ok"

\* findOne({ where: { userId, provider, isActive: true } })
FindActive(u, p) ==
  {c \in CredIds : creds[c].stored /\ creds[c].userId = u
                   /\ creds[c].provider = p /\ creds[c].isActive}

\* createCredentials up to the provider request: the lookup of an existing
\* active credential; ConflictException when there is one
CreateCredentialsFind(k, u, p, plain) ==
  /\ credPc[k] = "idle"
  /\ \A j \in CredIds : j < k => credPc[j] # "idle"
  /\ IF FindActive(u, p) # {}
     THEN /\ credPc' = [credPc EXCEPT ![k] = "conflict"]
          /\ UNCHANGED credDto
     ELSE /\ credPc' = [credPc EXCEPT ![k] = "validating"]
          /\ credDto' = [credDto EXCEPT ![k] =
                           [NoCred EXCEPT !.userId = u, !.provider = p,
                                          !.plain = plain]]
  /\ UNCHANGED <<creds, nextId, valPc, valEntity, wStep, wProvider,
                 wCredentialId, wLoadedFrom, wMeta>>
  /\ UNCHANGED <<depVars, logVars, unitVars>>

\* createCredentials from the provider's answer on: Error('Invalid
\* credentials') when the validation failed, otherwise the row is encrypted
\* and saved with isActive and isValid true
CreateCredentialsSave(k, resp) ==
  /\ credPc[k] = "validating"
  /\ IF IsValidResponse(resp)
     THEN /\ creds' = [creds EXCEPT ![nextId] =
                         [credDto[k] EXCEPT !.stored = TRUE, !.isActive = TRUE,
                                            !.isValid = TRUE]]
          /\ nextId' = nextId + 1
          /\ credPc' = [credPc EXCEPT ![k] = "saved"]
     ELSE /\ credPc' = [credPc EXCEPT ![k] = "invalid"]
          /\ UNCHANGED <<creds, nextId>>
  /\ credDto' = [credDto EXCEPT ![k] = NoCred]
  /\ UNCHANGED <<valPc, valEntity, wStep, wProvider, wCredentialId,
                 wLoadedFrom, wMeta>>
  /\ UNCHANGED <<depVars, logVars, unitVars>>

\* updateCredentials(userId, credentialId, { isActive }) by the owner
UpdateCredentials(c, active) ==
  /\ creds[c].stored
  /\ creds[c].isActive # active
  /\ creds' = [creds EXCEPT ![c].isActive = active]
  /\ UNCHANGED <<nextId, credPc, credDto, valPc, valEntity, wStep, wProvider,
                 wCredentialId, wLoadedFrom, wMeta>>
  /\ UNCHANGED <<depVars, logVars, unitVars>>

\* deleteCredentials(userId, credentialId) by the owner
DeleteCredentials(c) ==
  /\ creds[c].stored
  /\ creds' = [creds EXCEPT ![c] = NoCred]
  /\ UNCHANGED <<nextId, credPc, credDto, valPc, valEntity, wStep, wProvider,
                 wCredentialId, wLoadedFrom, wMeta>>
  /\ UNCHANGED <<depVars, logVars, unitVars>>

\* validateCredentials up to the provider request: the row is loaded and
\* decrypted (a missing row ends the call without a write)
ValidateCredentialsFind(c) ==
  /\ valPc[c] # "asking"
  /\ creds[c].stored
  /\ valEntity' = [valEntity EXCEPT ![c] = creds[c]]
  /\ valPc' = [valPc EXCEPT ![c] = "asking"]
  /\ UNCHANGED <<creds, nextId, credPc, credDto, wStep, wProvider,
                 wCredentialId, wLoadedFrom, wMeta>>
  /\ UNCHANGED <<depVars, logVars, unitVars>>

\* validateCredentials from the provider's answer on: credential.isValid =
\* validationResult.isValid; repository.save(credential) writes the loaded
\* entity.  valPc keeps the answer the call returned after.
ValidateCredentialsSave(c, resp) ==
  /\ valPc[c] = "asking"
  /\ creds' = [creds EXCEPT ![c] =
                 [valEntity[c] EXCEPT !.isValid = IsValidResponse(resp)]]
  /\ valEntity' = [valEntity EXCEPT ![c] = NoCred]
  /\ valPc' = [valPc EXCEPT ![c] = resp]
  /\ UNCHANGED <<nextId, credPc, credDto, wStep, wProvider, wCredentialId,
                 wLoadedFrom, wMeta>>
  /\ UNCHANGED <<depVars, logVars, unitVars>>

\* The pipeline has selected a provider and arrives at step 3.5 with the
\* credentialId of the job data, if any
WorkerSelectProvider(p, cid) ==
  /\ wStep = "idle"
  /\ wProvider' = p
  /\ wCredentialId' = cid
  /\ wStep' = "credentials"
  /\ UNCHANGED <<creds, nextId, credPc, credDto, valPc, valEntity,
                 wLoadedFrom, wMeta>>
  /\ UNCHANGED <<depVars, logVars, unitVars>>

\* A check of the loaded credential that does not compare providers.
CredentialUsable_AnyProvider(row, selected) ==
  row.stored /\ row.isActive

\* getCredentialForDeployment throws when the row is missing or inactive;
\* the worker throws when credentialData.isActive is false or
\* credentialData.provider differs from selectedProvider
CredentialUsable(row, selected) ==
  row.stored /\ row.isActive /\ row.provider = selected

\* getFirstCredentialForProvider: findOne({ where: { provider, isActive:
\* true }, order: { createdAt: 'DESC' } }), the newest such row of any user
FirstCredentialForProvider(p) ==
  LET cs == {c \in CredIds : creds[c].stored /\ creds[c].provider = p
                             /\ creds[c].isActive}
  IN IF cs = {} THEN 0 ELSE CHOOSE c \in cs : \A d \in cs : d <= c

\* Step 3.5: the explicit credential when credentialId is set, otherwise the
\* auto-fetched one; an Error is thrown when there is none to use
WorkerLoadCredentials ==
  /\ wStep = "credentials"
  /\ LET id == IF wCredentialId # 0 THEN wCredentialId
               ELSE FirstCredentialForProvider(wProvider)
         ok == IF wCredentialId # 0
               THEN CredentialUsable(creds[id], wProvider)
               ELSE id # 0
     IN IF ok
        THEN /\ wLoadedFrom' = creds[id]
             /\ wStep' = "build"
        ELSE /\ wStep' = "failed"
             /\ UNCHANGED wLoadedFrom
  /\ UNCHANGED <<creds, nextId, credPc, credDto, valPc, valEntity, wProvider,
                 wCredentialId, wMeta>>
  /\ UNCHANGED <<depVars, logVars, unitVars>>

\* Step 4: buildProject
WorkerBuild ==
  /\ wStep = "build"
  /\ wStep' = "deploy"
  /\ UNCHANGED <<creds, nextId, credPc, credDto, valPc, valEntity, wProvider,
                 wCredentialId, wLoadedFrom, wMeta>>
  /\ UNCHANGED <<depVars, logVars, unitVars>>

\* NetlifyService.ensureSite: credentials.siteId when it is set, otherwise
\* the id of a newly created site
ensureSite(plain) ==
  IF plain.siteId # NoSite THEN plain.siteId ELSE NewSite

\* deployToProvider: the adapter validates the credentials and deploys; the
\* result of NetlifyService.deploy carries metadata.siteId
WorkerDeploy(resp) ==
  /\ wStep = "deploy"
  /\ IF IsValidResponse(resp)
     THEN /\ wStep' = "logSuccess"
          /\ wMeta' = IF wProvider = "netlify"
                      THEN [siteId |-> ensureSite(wLoadedFrom.plain)]
                      ELSE NoMeta
     ELSE /\ wStep' = "failed"
          /\ UNCHANGED wMeta
  /\ UNCHANGED <<creds, nextId, credPc, credDto, valPc, valEntity, wProvider,
                 wCredentialId, wLoadedFrom>>
  /\ UNCHANGED <<depVars, logVars, unitVars>>

\* logSuccess(..., { url, provider, deploymentId, metadata:
\* deployResult.metadata }): the metadata becomes part of the log event
WorkerLogSuccess ==
  /\ wStep = "logSuccess"
  /\ wStep' = "logged"
  /\ UNCHANGED <<creds, nextId, credPc, credDto, valPc, valEntity, wProvider,
                 wCredentialId, wLoadedFrom, wMeta>>
  /\ UNCHANGED <<depVars, logVars, unitVars>>

\* ========================================== Analysis and provider selection
\* ProviderModule.onModuleInit registers the Netlify and Vercel adapters
Registered == {"netlify", "vercel"}
\* provider names a request may carry (IsString is the only validation)
ProviderNames == {"netlify", "vercel", "aws"}
NoProvider == "undefined"
NoFramework == "undefined"

DepNames == {"vite", "next", "react", "express"}
FileNames == {"index.html", "next.config.js", "vite.config.js", "Dockerfile",
              "gatsby-config.js"}

PreferLists == UNION {[1..n -> ProviderNames] : n \in 0..MaxPrefer}

\* scripts.build of a package.json, and the directory names in play
NoScript == "undefined"
BuildScripts == {NoScript, "vite build", "tsc --outDir out"}
NoDir == "undefined"

NoAnalysis == [type |-> "unknown", framework |-> NoFramework,
               hasPackageJson |-> FALSE, isStaticHtml |-> FALSE,
               hasBuildScript |-> FALSE, buildDirectory |-> NoDir]

InitSel ==
  /\ selPc = "idle"
  /\ wsFiles = {}
  /\ wsDeps = {}
  /\ wsManifest = FALSE
  /\ wsScript = NoScript
  /\ analysis = NoAnalysis
  /\ reqProvider = NoProvider
  /\ reqPrefer = <<>>
  /\ selectedProvider = NoProvider

\* detectFrameworkFromDependencies: the first matching rule, Vite first
detectFrameworkFromDependencies(deps) ==
  IF "vite" \in deps
    THEN [framework |-> IF "react" \in deps THEN "React (Vite)"
                        ELSE IF "vue" \in deps THEN "Vue (Vite)" ELSE "vite",
          type |-> "spa"]
  ELSE IF "next" \in deps THEN [framework |-> "next", type |-> "next"]
  ELSE IF "gatsby" \in deps THEN [framework |-> "gatsby", type |-> "static"]
  ELSE IF "react" \in deps THEN [framework |-> "react", type |-> "spa"]
  ELSE IF "nuxt" \in deps THEN [framework |-> "nuxt", type |-> "nuxt"]
  ELSE IF "vue" \in deps THEN [framework |-> "vue", type |-> "spa"]
  ELSE IF "@angular/core" \in deps THEN [framework |-> "angular", type |-> "spa"]
  ELSE IF "svelte" \in deps THEN [framework |-> "svelte", type |-> "spa"]
  ELSE IF deps \cap {"express", "fastify", "koa"} # {}
    THEN [framework |-> "node", type |-> "static"]
  ELSE [framework |-> NoFramework, type |-> "static"]

\* checkStaticHtmlProject: index.html is itself an .html file
checkStaticHtmlProject(files) == "index.html" \in files

\* detectFrameworkFromFiles: the first marker file decides framework and
\* type; a Dockerfile then sets the type to static
detectFrameworkFromFiles(files, a) ==
  LET b ==
        IF files \cap {"next.config.js", "next.config.ts"} # {}
          THEN [a EXCEPT !.framework = "next", !.type = "next"]
        ELSE IF files \cap {"gatsby-config.js", "gatsby-config.ts"} # {}
          THEN [a EXCEPT !.framework = "gatsby", !.type = "static"]
        ELSE IF "angular.json" \in files
          THEN [a EXCEPT !.framework = "angular", !.type = "spa"]
        ELSE IF files \cap {"nuxt.config.js", "nuxt.config.ts"} # {}
          THEN [a EXCEPT !.framework = "nuxt", !.type = "nuxt"]
        ELSE IF "svelte.config.js" \in files
          THEN [a EXCEPT !.framework = "svelte", !.type = "spa"]
        ELSE IF files \cap {"vite.config.js", "vite.config.ts"} # {}
          THEN IF a.framework = "react" THEN [a EXCEPT !.framework = "React (Vite)"]
               ELSE IF a.framework = "vue" THEN [a EXCEPT !.framework = "Vue (Vite)"]
               ELSE IF a.framework = NoFramework
                 THEN [a EXCEPT !.framework = "vite", !.type = "spa"]
               ELSE a
        ELSE a
  IN IF "Dockerfile" \in files THEN [b EXCEPT !.type = "static"] ELSE b

\* detectBuildDirectory: an output directory named by the build script,
\* then the framework's default, then the script's content, then 'dist'
detectBuildDirectory(script, framework) ==
  IF script = "tsc --outDir out" THEN "out"
  ELSE IF framework \in {"React (Vite)", "Vue (Vite)", "vite"} THEN "dist"
  ELSE IF framework = "next" THEN ".next"
  ELSE IF framework = "gatsby" THEN "public"
  ELSE IF framework \in {"nuxt", "vue", "angular", "svelte"} THEN "dist"
  ELSE IF framework = "react" THEN "build"
  ELSE IF script = "vite build" THEN "dist"
  ELSE "dist"

\* analyzeProject: package.json first, the static HTML check when there is
\* none, then the marker files
analyzeProject(files, deps, manifest, script) ==
  LET a0 == IF manifest
            THEN [NoAnalysis EXCEPT
                    !.hasPackageJson = TRUE,
                    !.hasBuildScript = (script # NoScript),
                    !.framework = detectFrameworkFromDependencies(deps).framework,
                    !.type = detectFrameworkFromDependencies(deps).type,
                    !.buildDirectory =
                      detectBuildDirectory(script,
                        detectFrameworkFromDependencies(deps).framework)]
            ELSE NoAnalysis
      a1 == IF ~manifest /\ checkStaticHtmlProject(files)
            THEN [a0 EXCEPT !.isStaticHtml = TRUE, !.type = "static",
                            !.framework = "html"]
            ELSE a0
  IN detectFrameworkFromFiles(files, a1)

\* A selection that asks for a static project before it asks for Next.js.
selectProvider_StaticFirst(a, preferProviders) ==
  IF Len(preferProviders) > 0 /\ preferProviders[1] \in Registered
    THEN preferProviders[1]
  ELSE IF a.isStaticHtml \/ a.type = "static" THEN "netlify"
  ELSE IF a.framework = "next" \/ a.type = "next" THEN "vercel"
  ELSE "vercel"

\* ProviderDecisionService.selectProvider
selectProvider(a, preferProviders) ==
  IF Len(preferProviders) > 0 /\ preferProviders[1] \in Registered
    THEN preferProviders[1]
  ELSE IF a.framework = "next" \/ a.type = "next" THEN "vercel"
  ELSE IF a.isStaticHtml \/ a.type = "static" THEN "netlify"
  ELSE "vercel"

\* Step 2 of executeDeployment: analyzeProject on the cloned workspace
AnalyzeProject(files, deps, manifest, script) ==
  /\ selPc = "idle"
  /\ manifest \/ (deps = {} /\ script = NoScript)
  /\ wsFiles' = files
  /\ wsDeps' = deps
  /\ wsManifest' = manifest
  /\ wsScript' = script
  /\ analysis' = analyzeProject(files, deps, manifest, script)
  /\ selPc' = "analyzed"
  /\ UNCHANGED <<reqProvider, reqPrefer, selectedProvider>>
  /\ UNCHANGED <<coreVars, cloneVars, buildVars, intakeVars>>

\* Step 3 of executeDeployment: the provider of the job data when it is set,
\* otherwise selectProvider
SelectProvider(provider, preferProviders) ==
  /\ selPc = "analyzed"
  /\ reqProvider' = provider
  /\ reqPrefer' = preferProviders
  /\ selectedProvider' = IF provider # NoProvider THEN provider
                         ELSE selectProvider(analysis, preferProviders)
  /\ selPc' = "selected"
  /\ UNCHANGED <<wsFiles, wsDeps, wsManifest, wsScript, analysis>>
  /\ UNCHANGED <<coreVars, cloneVars, buildVars, intakeVars>>

\* ========================================================= cloneRepository
NoBranch == "(default)"
commonBranches == <<"main", "master", "develop", "dev">>
BranchNames == {"main", "master", "develop", "dev", "feature"}

InitClone ==
  /\ clonePc = "idle"
  /\ cloneBranch = NoBranch
  /\ remoteBranches = {}
  /\ attempts = <<>>

\* const branchesToTry = branch !== 'main' ? commonBranches
\*                                         : ['master', 'develop', 'dev']
branchesToTry(branch) ==
  IF branch # "main" THEN commonBranches ELSE <<"master", "develop", "dev">>

\* the git.clone calls cloneRepository makes while each one fails: the
\* requested branch, the branches to try, then no --branch argument
ClonePlan(branch) == <<branch>> \o branchesToTry(branch) \o <<NoBranch>>

\* cloneRepository(repoUrl, branch) is called for a repository that has the
\* branches remote (none when it cannot be reached); the first git.clone
\* starts
CloneStart(branch, remote) ==
  /\ clonePc = "idle"
  /\ cloneBranch' = branch
  /\ remoteBranches' = remote
  /\ attempts' = <<branch>>
  /\ clonePc' = "cloning"
  /\ UNCHANGED <<coreVars, selVars, buildVars, intakeVars>>

\* The running git.clone resolves: its branch exists (or it named none and
\* the repository has a default branch); the workspace is returned
CloneSucceeds ==
  /\ clonePc = "cloning"
  /\ LET b == attempts[Len(attempts)]
     IN IF b = NoBranch THEN remoteBranches # {} ELSE b \in remoteBranches
  /\ clonePc' = "returned"
  /\ UNCHANGED <<cloneBranch, remoteBranches, attempts>>
  /\ UNCHANGED <<coreVars, selVars, buildVars, intakeVars>>

\* The running git.clone throws (missing branch, or any other error): the
\* directory is removed and the next git.clone of the plan starts; after
\* the last one the error is thrown
CloneFails ==
  /\ clonePc = "cloning"
  /\ IF Len(attempts) < Len(ClonePlan(cloneBranch))
     THEN /\ attempts' = Append(attempts, ClonePlan(cloneBranch)[Len(attempts) + 1])
          /\ UNCHANGED clonePc
     ELSE /\ clonePc' = "thrown"
          /\ UNCHANGED attempts
  /\ UNCHANGED <<cloneBranch, remoteBranches>>
  /\ UNCHANGED <<coreVars, selVars, buildVars, intakeVars>>

\* ============================================================= Build step
\* Paths are the components below workspaceDir; workspaceDir itself is Root
Root == <<>>
NoHand == [projectPath |-> Root, buildDirectory |-> "(nothing handed)"]
\* config.buildDirectory values a request may carry
ConfigDirs == {NoDir, "public"}
\* workspace entries enumerated for the build step
BuildFileNames == {"index.html", "vite.config.js", "Dockerfile"}
WaitOutcomes == {"zero", "nonzero", "error"}

\* detectedStack of a row that has none (no analysis has this type)
NoDetected == [NoAnalysis EXCEPT !.type = "undefined"]
NoRecord == [stored |-> FALSE, provider |-> NoProvider,
             detectedStack |-> NoDetected, deploymentUrl |-> NoUrl]

InitBuild ==
  /\ bPc = "idle"
  /\ container = "none"
  /\ containerCmd = <<>>
  /\ buildResult = "none"
  /\ artifactPath = Root
  /\ buildPath = Root
  /\ reqConfigDir = NoDir
  /\ handed = NoHand
  /\ record = NoRecord

\* path.join(base, dir)
join(base, dir) == IF dir = "." THEN base ELSE Append(base, dir)

\* DeploymentWorker.mapProjectType
mapProjectType(analysisType) ==
  IF analysisType \in {"spa", "react", "vue", "angular"} THEN "spa"
  ELSE IF analysisType \in {"next", "nuxt"} THEN "ssr"
  ELSE "static"

\* detectedStack.buildCmd when the stack has none
NoCmd == "undefined"

\* the detectedStack the worker passes to buildProject
detectedStack(a) ==
  [framework |-> IF a.framework # NoFramework THEN a.framework ELSE "unknown",
   type |-> mapProjectType(a.type),
   packageManager |-> "npm",
   buildCmd |-> NoCmd,
   hasDockerfile |-> FALSE,
   distDir |-> IF a.buildDirectory # NoDir THEN a.buildDirectory ELSE "dist"]

\* ContainerService.getBuildCommands: the install command of the package
\* manager, then buildCmd when the stack has one
getBuildCommands(stack) ==
  LET install ==
        CASE stack.packageManager = "npm" -> <<"npm ci --production=false">>
          [] stack.packageManager = "yarn" -> <<"yarn install --frozen-lockfile">>
          [] stack.packageManager = "pnpm" -> <<"npm install -g pnpm && pnpm install">>
          [] stack.packageManager = "bun" -> <<"npm install -g bun && bun install">>
          [] OTHER -> <<>>
  IN IF stack.buildCmd # NoCmd THEN Append(install, stack.buildCmd) ELSE install

\* ContainerService.isStaticHtmlProject (the worker passes no dependencies)
isStaticHtmlProject(stack) ==
  stack.type = "static" /\ stack.framework = "Static HTML"

\* ContainerService.createArtifact: the dist directory when it exists,
\* otherwise the workspace
createArtifact(stack, distExists) ==
  IF distExists THEN join(Root, stack.distDir) ELSE Root

\* A deployment config that falls back to 'dist' as the build step does.
deploymentConfigBuildDirectory_DistDefault(a, configDir) ==
  IF configDir # NoDir THEN configDir
  ELSE IF a.buildDirectory # NoDir THEN a.buildDirectory ELSE "dist"

\* Step 5 of executeDeployment: buildDirectory of the analysis, overridden
\* by the request's config
deploymentConfigBuildDirectory(a, configDir) ==
  IF configDir # NoDir THEN configDir ELSE a.buildDirectory

\* createDeploymentZip / prepareDeploymentFiles: the directory uploaded
deployPath(h) ==
  IF h.buildDirectory # NoDir THEN join(h.projectPath, h.buildDirectory)
  ELSE h.projectPath

\* Step 4 of executeDeployment: buildProject is called when the analysis has
\* a build script and is not static HTML; buildProject returns the artifact
\* of a static stack at once and otherwise enters buildWithLanguageContainer
WorkerBuildStep(distExists) ==
  /\ selPc = "selected"
  /\ bPc = "idle"
  /\ IF analysis.hasBuildScript /\ ~analysis.isStaticHtml
     THEN IF isStaticHtmlProject(detectedStack(analysis))
          THEN /\ artifactPath' = createArtifact(detectedStack(analysis), distExists)
               /\ buildResult' = "success"
               /\ bPc' = "returned"
          ELSE /\ bPc' = "pull"
               /\ UNCHANGED <<artifactPath, buildResult>>
     ELSE /\ bPc' = "built"
          /\ UNCHANGED <<artifactPath, buildResult>>
  /\ UNCHANGED <<container, buildPath, reqConfigDir, handed, containerCmd, record>>
  /\ UNCHANGED <<coreVars, selVars, cloneVars, intakeVars>>

\* buildWithLanguageContainer returns { success: false } from its catch
BuildReturnsFailure ==
  /\ buildResult' = "failure"
  /\ bPc' = "returned"

\* pullImageIfNeeded
BuildPull(ok) ==
  /\ bPc = "pull"
  /\ IF ok THEN bPc' = "create" /\ UNCHANGED buildResult
     ELSE BuildReturnsFailure
  /\ UNCHANGED <<container, artifactPath, buildPath, reqConfigDir, handed, containerCmd, record>>
  /\ UNCHANGED <<coreVars, selVars, cloneVars, intakeVars>>

\* docker.createContainer
BuildCreateContainer(ok) ==
  /\ bPc = "create"
  /\ IF ok THEN /\ container' = "created"
                /\ containerCmd' = getBuildCommands(detectedStack(analysis))
                /\ bPc' = "attach"
                /\ UNCHANGED buildResult
     ELSE BuildReturnsFailure /\ UNCHANGED <<container, containerCmd>>
  /\ UNCHANGED <<artifactPath, buildPath, reqConfigDir, handed, record>>
  /\ UNCHANGED <<coreVars, selVars, cloneVars, intakeVars>>

\* container.attach
BuildAttach(ok) ==
  /\ bPc = "attach"
  /\ IF ok THEN bPc' = "start" /\ UNCHANGED buildResult
     ELSE BuildReturnsFailure
  /\ UNCHANGED <<container, artifactPath, buildPath, reqConfigDir, handed, containerCmd, record>>
  /\ UNCHANGED <<coreVars, selVars, cloneVars, intakeVars>>

\* container.start
BuildStart(ok) ==
  /\ bPc = "start"
  /\ IF ok THEN /\ container' = "running"
                /\ bPc' = "wait"
                /\ UNCHANGED buildResult
     ELSE BuildReturnsFailure /\ UNCHANGED container
  /\ UNCHANGED <<artifactPath, buildPath, reqConfigDir, handed, containerCmd, record>>
  /\ UNCHANGED <<coreVars, selVars, cloneVars, intakeVars>>

\* container.wait: the command exits with status zero or non-zero (which
\* throws), or the wait itself fails
BuildWait(outcome) ==
  /\ bPc = "wait"
  /\ CASE outcome = "zero" -> /\ container' = "exited"
                              /\ bPc' = "artifact"
                              /\ UNCHANGED buildResult
       [] outcome = "nonzero" -> /\ container' = "exited"
                                 /\ BuildReturnsFailure
       [] OTHER -> BuildReturnsFailure /\ UNCHANGED container
  /\ UNCHANGED <<artifactPath, buildPath, reqConfigDir, handed, containerCmd, record>>
  /\ UNCHANGED <<coreVars, selVars, cloneVars, intakeVars>>

\* createArtifact after a build that exited with status zero
BuildCreateArtifact(distExists) ==
  /\ bPc = "artifact"
  /\ artifactPath' = createArtifact(detectedStack(analysis), distExists)
  /\ bPc' = "remove"
  /\ UNCHANGED <<container, buildResult, buildPath, reqConfigDir, handed, containerCmd, record>>
  /\ UNCHANGED <<coreVars, selVars, cloneVars, intakeVars>>

\* container.remove, then return { success: true, artifactPath }
BuildRemove(ok) ==
  /\ bPc = "remove"
  /\ IF ok THEN /\ container' = "removed"
                /\ buildResult' = "success"
                /\ bPc' = "returned"
     ELSE BuildReturnsFailure /\ UNCHANGED container
  /\ UNCHANGED <<artifactPath, buildPath, reqConfigDir, handed, containerCmd, record>>
  /\ UNCHANGED <<coreVars, selVars, cloneVars, intakeVars>>

\* executeDeployment after buildProject: a failed build throws, a
\* successful one sets buildPath to the artifact
WorkerBuildReturned ==
  /\ bPc = "returned"
  /\ IF buildResult = "success"
     THEN buildPath' = artifactPath /\ bPc' = "built"
     ELSE bPc' = "thrown" /\ UNCHANGED buildPath
  /\ UNCHANGED <<container, buildResult, artifactPath, reqConfigDir, handed, containerCmd, record>>
  /\ UNCHANGED <<coreVars, selVars, cloneVars, intakeVars>>

\* Steps 5 and 6 of executeDeployment: the deployment config is built and
\* deployToProvider calls the adapter's deploy(projectPath, config) when the
\* provider is supported and the credentials validate
WorkerHandOff(configDir, credentialsValid) ==
  /\ bPc = "built"
  /\ reqConfigDir' = configDir
  /\ IF selectedProvider \in Registered /\ credentialsValid
     THEN /\ handed' = [projectPath |-> buildPath,
                        buildDirectory |->
                          deploymentConfigBuildDirectory(analysis, configDir)]
          /\ bPc' = "handed"
     ELSE /\ bPc' = "thrown"
          /\ UNCHANGED handed
  /\ UNCHANGED <<container, containerCmd, buildResult, artifactPath,
                 buildPath, record>>
  /\ UNCHANGED <<coreVars, selVars, cloneVars, intakeVars>>

\* deploymentRepository.update(id, updateData): the columns named in
\* updateData are written, every other column is left as it is
repositoryUpdate(row, updateData) ==
  IF ~row.stored THEN row
  ELSE [f \in DOMAIN row |->
          IF f \in DOMAIN updateData THEN updateData[f] ELSE row[f]]

\* createDeployment: the row is created from the dto (its provider when the
\* request names one) and the job data carry the same provider
CreateDeploymentRecord(provider) ==
  /\ record = NoRecord
  /\ selPc = "idle"
  /\ record' = [stored |-> TRUE, provider |-> provider,
                detectedStack |-> NoDetected, deploymentUrl |-> NoUrl]
  /\ reqProvider' = provider
  /\ UNCHANGED <<selPc, wsFiles, wsDeps, wsManifest, wsScript, analysis,
                 reqPrefer, selectedProvider>>
  /\ UNCHANGED <<bPc, container, buildResult, artifactPath, buildPath,
                 reqConfigDir, handed, containerCmd>>
  /\ UNCHANGED <<coreVars, cloneVars, intakeVars>>

\* The adapter's deploy returns: on success step 7 runs
\* updateDeploymentStatus(id, 'success', { deploymentUrl }), otherwise
\* executeDeployment throws
WorkerDeployReturned(success) ==
  /\ bPc = "handed"
  /\ IF success
     THEN /\ record' = repositoryUpdate(record,
                          [status |-> "success", deploymentUrl |-> "url"])
          /\ bPc' = "success"
     ELSE /\ bPc' = "thrown"
          /\ UNCHANGED record
  /\ UNCHANGED <<container, buildResult, artifactPath, buildPath,
                 reqConfigDir, handed, containerCmd>>
  /\ UNCHANGED <<coreVars, selVars, cloneVars, intakeVars>>

\* The catch of executeDeployment:
\* updateDeploymentStatus(id, 'failed', { errorMessage })
WorkerDeployCatch ==
  /\ bPc = "thrown"
  /\ record' = repositoryUpdate(record,
                  [status |-> "failed", errorMessage |-> "message"])
  /\ bPc' = "failed"
  /\ UNCHANGED <<container, buildResult, artifactPath, buildPath,
                 reqConfigDir, handed, containerCmd>>
  /\ UNCHANGED <<coreVars, selVars, cloneVars, intakeVars>>

\* ================================================================== Intake
\* A repoUrl is its start, one of UrlStarts, followed by at most MaxUrlLen
\* characters of UrlChars
MaxUrlLen == 4
GitHubStart == "https://github.com/"
UrlStarts == {GitHubStart, "http://github.com/", "https://gitlab.com/",
              "https://github.com.evil.io/", "git@github.com:"}
UrlChars == {"a", ".", "/", "?"}
\* the characters of the class [A-Za-z0-9_.-]
NameChars == {"a", "."}
RepoUrls == [start : UrlStarts,
             rest : UNION {[1..n -> UrlChars] : n \in 0..MaxUrlLen}]

InitIntake ==
  /\ intakePc = "idle"
  /\ intakeUrl = [start |-> GitHubStart, rest |-> <<>>]

\* [A-Za-z0-9_.-]+ applied at position i: the position after the longest
\* run of name characters (i itself when there is none)
RECURSIVE NameRun(_, _)
NameRun(chars, i) ==
  IF i <= Len(chars) /\ chars[i] \in NameChars THEN NameRun(chars, i + 1)
  ELSE i

\* The same pattern without the closing $.
githubUrlPatternTest_Unanchored(url) ==
  LET i == NameRun(url.rest, 1)
      j == NameRun(url.rest, i + 1)
  IN /\ url.start = GitHubStart
     /\ i > 1
     /\ i <= Len(url.rest) /\ url.rest[i] = "/"
     /\ j > i + 1

\* githubUrlPattern.test(repoUrl) for
\* /^https:\/\/github\.com\/[A-Za-z0-9_.-]+\/[A-Za-z0-9_.-]+$/
githubUrlPatternTest(url) ==
  LET i == NameRun(url.rest, 1)
      j == NameRun(url.rest, i + 1)
  IN /\ url.start = GitHubStart
     /\ i > 1
     /\ i <= Len(url.rest) /\ url.rest[i] = "/"
     /\ j > i + 1
     /\ j = Len(url.rest) + 1

\* DeploymentController.createDeployment up to the call of the service: a
\* repoUrl that fails the pattern throws BadRequestException
ControllerCreateDeployment(url) ==
  /\ intakePc = "idle"
  /\ createPc = "init"
  /\ intakeUrl' = url
  /\ intakePc' = IF githubUrlPatternTest(url) THEN "accepted" ELSE "rejected"
  /\ UNCHANGED <<coreVars, selVars, cloneVars, buildVars>>

\* ========================================================== Specifications
Init == InitDep /\ InitLog /\ InitCred /\ InitSel /\ InitClone /\ InitBuild
        /\ InitIntake

Next ==
  \/ CreateSave
  \/ CreateEnqueue
  \/ CreateSetJobId
  \/ QueueTake
  \/ BackoffElapsed
  \/ \E r \in Runs : ExecSetCloning(r)
  \/ \E r \in Runs : ExecClone(r)
  \/ \E r \in Runs : ExecSetBuilding(r)
  \/ \E r \in Runs : ExecAnalyze(r)
  \/ \E r \in Runs : ExecCredentials(r)
  \/ \E r \in Runs : ExecBuild(r)
  \/ \E r \in Runs : ExecSetDeploying(r)
  \/ \E r \in Runs : ExecDeploy(r)
  \/ \E r \in Runs : ExecFinalize(r)
  \/ \E r \in Runs : ExecLogSuccess(r)
  \/ \E r \in Runs : ExecCatch(r)
  \/ \E r \in Runs : ExecCatchLog(r)
  \/ \E r \in Runs : ExecFinally(r)
  \/ \E r \in Runs : ExecSettle(r)
  \/ \E r \in Runs : TimerFire(r)
  \/ \E r \in Runs : PdRetry(r)
  \/ \E r \in Runs : PdMarkFailed(r)
  \/ CancelFindRemove
  \/ CancelUpdate

Spec == Init /\ [][Next]_vars

\* a step of executeDeployment in run r
ExecStep(r) ==
  \/ ExecSetCloning(r)
  \/ ExecClone(r)
  \/ ExecSetBuilding(r)
  \/ ExecAnalyze(r)
  \/ ExecCredentials(r)
  \/ ExecBuild(r)
  \/ ExecSetDeploying(r)
  \/ ExecDeploy(r)
  \/ ExecFinalize(r)
  \/ ExecLogSuccess(r)
  \/ ExecCatch(r)
  \/ ExecCatchLog(r)
  \/ ExecFinally(r)
  \/ ExecSettle(r)

\* The pipeline with its scheduling: createDeployment and cancelDeployment run
\* to their end, a worker takes every waiting job, the code of
\* processDeployment after the race runs on, and while processDeployment
\* awaits Promise.race either the pending step of executeDeployment returns
\* or the setTimeout callback runs.  A step of executeDeployment that is
\* pending after the timer has fired may never return.
Fairness ==
  /\ WF_vars(CreateSave) /\ WF_vars(CreateEnqueue) /\ WF_vars(CreateSetJobId)
  /\ WF_vars(QueueTake) /\ WF_vars(BackoffElapsed)
  /\ WF_vars(CancelUpdate)
  /\ \A r \in Runs :
       /\ WF_vars(pd[r] = "racing" /\ (ExecStep(r) \/ TimerFire(r)))
       /\ WF_vars(PdRetry(r))
       /\ WF_vars(PdMarkFailed(r))

SpecLive == Init /\ [][Next]_vars /\ Fairness

NextLog ==
  \/ \E e \in Events : AddLogPush(e)
  \/ \E e \in Events : PersistRead(e)
  \/ \E e \in Events : PersistWriteNotify(e)
  \/ \E e \in Events : PersistWriteFailNotify(e)
  \/ \E s \in Streams : StreamOpen(s)
  \/ \E s \in Streams : StreamReplayMemory(s)
  \/ \E s \in Streams : StreamLoadFromFile(s)
  \/ \E s \in Streams : StreamClose(s)

SpecLog == Init /\ [][NextLog]_vars

\* LoggingService on its own: one instance on which callers both append and
\* subscribe
NextBus ==
  \/ \E e \in Events : AddLogPush(e)
  \/ \E e \in Events : PersistRead(e)
  \/ \E e \in Events : PersistWriteNotify(e)
  \/ \E e \in Events : PersistWriteFailNotify(e)
  \/ \E s \in Streams : Subscribe(s)
  \/ \E s \in Streams : Unsubscribe(s)

SpecBus == Init /\ [][NextBus]_vars

\* The vault on its own: the operations of CredentialService
NextCred ==
  \/ \E k \in CredIds, u \in Users, p \in Providers :
       \E plain \in Plaintexts(p) : CreateCredentialsFind(k, u, p, plain)
  \/ \E k \in CredIds, resp \in ProviderResponses : CreateCredentialsSave(k, resp)
  \/ \E c \in CredIds, active \in BOOLEAN : UpdateCredentials(c, active)
  \/ \E c \in CredIds : DeleteCredentials(c)
  \/ \E c \in CredIds : ValidateCredentialsFind(c)
  \/ \E c \in CredIds, resp \in ProviderResponses : ValidateCredentialsSave(c, resp)

SpecCred == Init /\ [][NextCred]_vars

\* A deployment's pipeline from the credentials step on, while users create,
\* deactivate and delete credentials
NextDeployCred ==
  \/ \E k \in CredIds, u \in Users, p \in Providers :
       \E plain \in Plaintexts(p) : CreateCredentialsFind(k, u, p, plain)
  \/ \E k \in CredIds, resp \in ProviderResponses : CreateCredentialsSave(k, resp)
  \/ \E c \in CredIds, active \in BOOLEAN : UpdateCredentials(c, active)
  \/ \E c \in CredIds : DeleteCredentials(c)
  \/ \E p \in Providers, cid \in 0..MaxCreds : WorkerSelectProvider(p, cid)
  \/ WorkerLoadCredentials
  \/ WorkerBuild
  \/ \E resp \in ProviderResponses : WorkerDeploy(resp)
  \/ WorkerLogSuccess

SpecDeployCred == Init /\ [][NextDeployCred]_vars

\* Analysis of a cloned workspace followed by the selection of the provider
NextSelect ==
  \/ \E files \in SUBSET FileNames, deps \in SUBSET DepNames,
        manifest \in BOOLEAN, script \in BuildScripts :
       AnalyzeProject(files, deps, manifest, script)
  \/ \E provider \in ProviderNames \cup {NoProvider}, preferProviders \in PreferLists :
       SelectProvider(provider, preferProviders)

SpecSelect == Init /\ [][NextSelect]_vars

\* cloneRepository on its own
NextClone ==
  \/ \E branch \in BranchNames, remote \in SUBSET BranchNames :
       CloneStart(branch, remote)
  \/ CloneSucceeds
  \/ CloneFails

SpecClone == Init /\ [][NextClone]_vars

\* The deployment of a request without preferences from its record to the
\* end of executeDeployment: analysis, selection, build, hand-off, result
NextBuild ==
  \/ \E provider \in ProviderNames \cup {NoProvider} :
       CreateDeploymentRecord(provider)
  \/ \E files \in SUBSET BuildFileNames, deps \in SUBSET DepNames,
        manifest \in BOOLEAN, script \in BuildScripts :
       record.stored /\ AnalyzeProject(files, deps, manifest, script)
  \/ SelectProvider(reqProvider, <<>>)
  \/ \E distExists \in BOOLEAN : WorkerBuildStep(distExists)
  \/ \E ok \in BOOLEAN : BuildPull(ok)
  \/ \E ok \in BOOLEAN : BuildCreateContainer(ok)
  \/ \E ok \in BOOLEAN : BuildAttach(ok)
  \/ \E ok \in BOOLEAN : BuildStart(ok)
  \/ \E outcome \in WaitOutcomes : BuildWait(outcome)
  \/ \E distExists \in BOOLEAN : BuildCreateArtifact(distExists)
  \/ \E ok \in BOOLEAN : BuildRemove(ok)
  \/ WorkerBuildReturned
  \/ \E configDir \in ConfigDirs, credentialsValid \in BOOLEAN :
       WorkerHandOff(configDir, credentialsValid)
  \/ \E success \in BOOLEAN : WorkerDeployReturned(success)
  \/ WorkerDeployCatch

SpecBuild == Init /\ [][NextBuild]_vars

\* POST /deploy: the controller, then createDeployment of the service
NextIntake ==
  \/ \E url \in RepoUrls : ControllerCreateDeployment(url)
  \/ intakePc = "accepted" /\ CreateSave
  \/ intakePc = "accepted" /\ CreateEnqueue
  \/ intakePc = "accepted" /\ CreateSetJobId

SpecIntake == Init /\ [][NextIntake]_vars

\* ================================================================== Claims
Rank(st) ==
  CASE st = "none" -> 0
    [] st = "queued" -> 1
    [] st = "cloning" -> 2
    [] st = "building" -> 3
    [] st = "deploying" -> 4
    [] OTHER -> 5

\* No handler is running or can still run for the deployment.
Quiescent ==
  /\ cancelPc = "idle"
  /\ createPc = "done"
  /\ jobState \in {"completed", "failed", "removed"}
  /\ \A r \in Runs : ~ExecRunning(r) /\ pd[r] \in {"idle", "done", "thrown"}

\* C1: the states written to the Deployment record never move backward in
\* queued -> cloning -> building -> deploying -> {success, failed, cancelled},
\* and no write leaves success, failed or cancelled.
C1_NoBackwardTransition ==
  [][/\ Rank(status) <= Rank(status')
     /\ (status \in TerminalStatuses => status' = status)]_vars

\* C2: once the 15-minute timer has fired for a run, the job is not retried,
\* the deployment is marked failed when processDeployment returns, and no
\* later step of that run's pipeline changes the record's state or URL.
C2_TimeoutTerminatesPipeline ==
  [][\A r \in Runs : pdErr[r] = TimeoutMessage =>
        /\ pd'[r] # "thrown"
        /\ (pd[r] # "done" /\ pd'[r] = "done" => status' = "failed")
        /\ (pc'[r] # pc[r] => status' = status /\ deploymentUrl' = deploymentUrl)]_vars

\* C3: after a cancel command issued while the pipeline was running (state
\* cloning, building or deploying) deployment_url is never set, and when
\* everything has come to rest the state is cancelled.
C3_CancelWhileRunning ==
  cancelDuringRun =>
    /\ deploymentUrl = NoUrl
    /\ (Quiescent => status = "cancelled")

\* C4: a run that failed with a build failure, a missing credential or an
\* unavailable container daemon is not retried: its handler does not rethrow
\* and no later run of the job exists.
C4_TerminalKindsNotRetried ==
  \A r \in Runs : execErr[r] \in TerminalKindMessages => (runs = r /\ pd[r] # "thrown")

C6_WorkspaceRemovedOnFinish ==
  \A r \in Runs : PdFinished(r) => workspace[r] # "present"

\* C7: deployment_url is set if and only if state is success.
C7_UrlIffSuccess ==
  status # "none" => ((deploymentUrl # NoUrl) <=> (status = "success"))

\* C8: error_message is set if and only if state is failed.
C8_ErrorIffFailed ==
  status # "none" => ((errorMessage # NoError) <=> (status = "failed"))

\* C9: at most one execution of the pipeline is in progress for the job at
\* any time.
C9_SingleExecution ==
  Cardinality({r \in Runs : ExecRunning(r)}) <= 1

\* A retried run whose timer fired is still executing after its handler
\* returned, and a cancel command was issued.
C9_Witness ==
  \E r \in Runs :
    /\ r >= 2
    /\ ExecRunning(r)
    /\ pdErr[r] = TimeoutMessage
    /\ pd[r] = "done"
    /\ cancelCount > 0

IsOrdered(seq) ==
  \A j, k \in 1..Len(seq) : j < k => seq[j] < seq[k]

\* C10: the events a log stream delivers are, in delivery order, an ordered
\* subsequence of the appends (no event after a newer one, none twice), and
\* once the replay is done they include the whole durable log that existed
\* when the stream was opened.
C10_StreamOrderedReplay ==
  \A s \in Streams :
    /\ IsOrdered(delivered[s])
    /\ (streamPc[s] = "live" => expected[s] \subseteq Range(delivered[s]))

\* C11: with several addLog calls in flight at once, every subscriber is
\* notified of the events in the order in which they were appended.
C11_NotifiedInAppendOrder ==
  \A s \in Streams : streamPc[s] \in {"subscribed", "closed"} => IsOrdered(delivered[s])

\* C12: an event whose durable write failed is delivered to no subscriber
\* and is returned by no later read of the log.
C12_UnwrittenNeverSeen ==
  \A e \in Events :
    addPc[e] = "doneUnwritten" =>
      /\ \A s \in Streams : e \notin Range(delivered[s])
      /\ \A i \in Inst : e \notin Range(getLogs(i))

Count(seq, x) == Cardinality({k \in 1..Len(seq) : seq[k] = x})

\* C13: once every addLog call has returned with its write done, the durable
\* log contains every appended event exactly once.
C13_DurableLogComplete ==
  (\A e \in Events : addPc[e] \in {"idle", "done"}) =>
    \A e \in Range(appended) : Count(ReadLogFile, e) = 1

\* C14: an event the worker appended is delivered to every stream that was
\* subscribed when it was appended and is still open once addLog returned.
C14_DeliveredToAudience ==
  \A e \in Events :
    addPc[e] \in {"done", "doneUnwritten"} =>
      \A s \in audience[e] :
        streamPc[s] \in {"replayMemory", "loading", "live"} =>
          e \in Range(delivered[s])

\* C15: getLogs returns every event of the durable log, in append order,
\* whichever instance is asked and whenever it first loaded the log.
C15_GetLogsComplete ==
  \A i \in Inst :
    /\ Range(ReadLogFile) \subseteq Range(getLogs(i))
    /\ IsOrdered(ReadLogFile) => IsOrdered(getLogs(i))

\* The steps of run r in which the worker calls loggingService.addLog (through
\* logStep, logSuccess, logError or logWarning) while the record still has the
\* status the step started with: the 'initialization' log, the log after the
\* clone, the analysis, credential and build logs, logSuccess and logError
\* after the record was finalized, the cleanup log, and the logError of
\* processDeployment's catch.
AppendsLog(r) ==
  \/ ExecSetCloning(r)
  \/ (ExecClone(r) /\ workspace'[r] = "present")
  \/ ExecAnalyze(r)
  \/ ExecCredentials(r)
  \/ ExecBuild(r)
  \/ ExecLogSuccess(r)
  \/ ExecCatchLog(r)
  \/ (ExecFinally(r) /\ workspace[r] = "present")
  \/ (ExecSettle(r) /\ pd'[r] = "catchLog")
  \/ TimerFire(r)

\* C16: no log event is appended for the deployment once its record is in a
\* terminal state.
C16_NoAppendAfterTerminal ==
  [][\A r \in Runs : AppendsLog(r) => status \notin TerminalStatuses]_vars

UsableExists ==
  \E c \in CredIds :
    creds[c].stored /\ creds[c].isActive /\ creds[c].provider = wProvider

\* C17: the pipeline is at or past the build step only with credentials
\* decrypted from a row that was active and of the selected provider, and
\* the credentials step fails the deployment when the store has no such row.
C17_UsableCredentialOrFail ==
  /\ [](wStep \in {"build", "deploy", "logSuccess", "logged"} =>
          /\ wLoadedFrom.stored
          /\ wLoadedFrom.isActive
          /\ wLoadedFrom.provider = wProvider)
  /\ [][(WorkerLoadCredentials /\ ~UsableExists) => wStep' = "failed"]_vars

\* The pipeline passed the credentials step with the explicit credential of
\* the job while the store also holds a credential of another provider.
C17_Witness ==
  /\ wStep = "build"
  /\ wCredentialId # 0
  /\ \E c \in CredIds : creds[c].stored /\ creds[c].provider # wProvider

\* C18: the metadata of the success log event holds no field value of the
\* plaintext the pipeline's credentials were decrypted to.
C18_NoPlaintextInLog ==
  wStep = "logged" =>
    wMeta.siteId \notin ({wLoadedFrom.plain.token, wLoadedFrom.plain.siteId}
                           \ {NoSite})

ActiveExists(u, p) ==
  \E c \in CredIds :
    creds[c].stored /\ creds[c].userId = u /\ creds[c].provider = p
    /\ creds[c].isActive

\* C19: a createCredentials call that finds an active credential of the same
\* owner and provider, or whose validation with the provider fails, is
\* rejected and leaves the credential store unchanged.
C19_CreateRejected ==
  [][/\ \A k \in CredIds, u \in Users, p \in Providers :
          \A plain \in Plaintexts(p) :
            (CreateCredentialsFind(k, u, p, plain) /\ ActiveExists(u, p)) =>
              (credPc'[k] = "conflict" /\ creds' = creds)
     /\ \A k \in CredIds, resp \in ProviderResponses :
          (CreateCredentialsSave(k, resp) /\ resp # "ok") =>
            (credPc'[k] = "invalid" /\ creds' = creds)]_vars

\* One call was rejected for a conflict with a stored active credential and
\* an earlier call of the same kind saved that credential.
C19_Witness ==
  /\ \E k \in CredIds : credPc[k] = "conflict"
  /\ \E k \in CredIds : credPc[k] = "saved"
  /\ \E c \in CredIds : creds[c].stored /\ creds[c].isActive

\* C20: validateCredentials never deletes the credential, sets isValid to
\* false when the provider rejected the secret, and leaves isValid as it was
\* when the provider could not be reached.
C20_ValidateKeepsOnNetworkError ==
  [][\A c \in CredIds, resp \in ProviderResponses :
       ValidateCredentialsSave(c, resp) =>
         /\ creds'[c].stored
         /\ (resp = "rejected" => ~creds'[c].isValid)
         /\ (resp = "unreachable" => creds'[c].isValid = creds[c].isValid)]_vars

\* C21: the provider chosen for a deployment is a registered adapter.
C21_ChosenIsRegistered ==
  selPc = "selected" => selectedProvider \in Registered

FirstRegistered(list) ==
  list[CHOOSE k \in 1..Len(list) :
         /\ list[k] \in Registered
         /\ \A j \in 1..(k - 1) : list[j] \notin Registered]

\* C22: without an explicit provider, the selection is the first entry of
\* preferProviders that is a registered adapter.
C22_FirstRegisteredPreferred ==
  (/\ selPc = "selected"
   /\ reqProvider = NoProvider
   /\ \E k \in 1..Len(reqPrefer) : reqPrefer[k] \in Registered)
  => selectedProvider = FirstRegistered(reqPrefer)

FallbackOrder(branch) ==
  <<branch>> \o SelectSeq(commonBranches, LAMBDA b : b # branch) \o <<NoBranch>>

\* C24: the clone attempts are the requested branch, then main, master,
\* develop, dev in that order without the branch already tried, then one
\* attempt without a branch; no branch is attempted twice.
C24_CloneFallbackOrder ==
  clonePc # "idle" =>
    /\ Len(attempts) <= Len(FallbackOrder(cloneBranch))
    /\ \A k \in 1..Len(attempts) :
         k <= Len(FallbackOrder(cloneBranch)) =>
           attempts[k] = FallbackOrder(cloneBranch)[k]

\* C25: when buildWithLanguageContainer has returned, with success or with
\* failure, the container it created has been removed
C25_ContainerRemovedOnReturn ==
  bPc = "returned" => container \in {"none", "removed"}

\* C26: for a workspace with index.html and no package.json, and a request
\* whose config names no build directory, no build container is ever
\* created and the adapter is handed the workspace root
C26_PureStaticUploadsRoot ==
  (selPc # "idle" /\ ~wsManifest /\ "index.html" \in wsFiles) =>
    /\ container = "none"
    /\ bPc \in {"idle", "built", "handed", "thrown", "success", "failed"}
    /\ (handed # NoHand /\ reqConfigDir = NoDir) =>
         (handed.projectPath = Root /\ deployPath(handed) = Root)

C26_Witness ==
  /\ ~wsManifest
  /\ "index.html" \in wsFiles
  /\ bPc = "handed"
  /\ reqConfigDir = NoDir
  /\ container = "none"

\* C27: when the deployment has reached success its record holds the
\* provider deployed to and the detection result, and a provider or a
\* detection result that the record holds is never changed
C27_RecordHoldsProviderAndDetected ==
  /\ [](bPc = "success" =>
          /\ record.provider = selectedProvider
          /\ record.detectedStack = analysis)
  /\ [][record.stored =>
          /\ record.provider # NoProvider => record'.provider = record.provider
          /\ record.detectedStack # NoDetected =>
               record'.detectedStack = record.detectedStack]_vars

\* C28: when the handler has caught the provider's upload timeout and the
\* job has attempts left, it rethrows the error so that the job is retried
C28_UploadTimeoutRetried ==
  [][\A r \in Runs :
       (/\ pd[r] = "catchLog"
        /\ pdErr[r] = "Deployment timeout"
        /\ attemptsMade < MAX_RETRIES
        /\ pd'[r] # pd[r])
       => pd'[r] = "thrown"]_vars

\* C29: a cancel command that finds the job in the queue, never taken by a
\* worker, removes it from the queue
C29_CancelBeforeLeaseRemovesJob ==
  [][(/\ cancelPc = "idle"
      /\ cancelPc' = "update"
      /\ jobState = "waiting"
      /\ runs = 0)
     => jobState' = "removed"]_vars

\* a repository URL of GitHub: https://github.com/<owner>/<repo>, both
\* names non-empty and made of name characters only
IsGitHubRepositoryUrl(url) ==
  /\ url.start = GitHubStart
  /\ \E k \in 2..(Len(url.rest) - 1) :
       /\ url.rest[k] = "/"
       /\ \A n \in (1..Len(url.rest)) \ {k} : url.rest[n] \in NameChars

C31_ViteIsSpaDist ==
  (selPc # "idle" /\ ("vite" \in wsDeps \/ "vite.config.js" \in wsFiles)) =>
    /\ analysis.type = "spa"
    /\ analysis.buildDirectory = "dist"

\* a transition of the state DAG: forward, and never out of a terminal state
AllowedTransition(from, to) ==
  from \notin TerminalStatuses /\ Rank(from) < Rank(to)

\* C32: a call of updateDeploymentStatus (a step of the worker, neither
\* createDeployment nor cancelDeployment) either makes a transition that the
\* DAG allows or leaves the record as it is
C32_UpdateRejectsDisallowed ==
  [][(cancelPc' = cancelPc /\ createPc' = createPc) =>
       \/ AllowedTransition(status, status')
       \/ recVars' = recVars]_vars

\* C33: cancelDeployment that found the record in success or failed, and
\* writes while the record is still in that state, leaves the state and the
\* deployment URL as they are
C33_CancelKeepsTerminal ==
  [][(/\ cancelPc = "update"
      /\ cancelPc' = "idle"
      /\ cancelSeen \in {"success", "failed"}
      /\ status = cancelSeen)
     => (status' = status /\ deploymentUrl' = deploymentUrl)]_vars

\* C34: for a request whose config names no build directory, the directory
\* the adapter packages is the artifact directory the worker resolved
\* (buildPath); the detected build directory is not joined onto it again
C34_UploadsResolvedArtifact ==
  (handed # NoHand /\ reqConfigDir = NoDir) => deployPath(handed) = buildPath

\* the build commands of a project: its build script run through the
\* package manager, or the script itself
BuildCommandsOf(script) == {"npm run build", script}

\* C35: the command of a build container is the install command of the
\* package manager followed by the project's build command
C35_InstallThenBuild ==
  container # "none" =>
    /\ Len(containerCmd) = 2
    /\ containerCmd[1] = "npm ci --production=false"
    /\ containerCmd[2] \in BuildCommandsOf(wsScript)

\* C36: every (owner, provider) pair has at most one credential that is
\* active
C36_OneActivePerOwnerProvider ==
  \A c, d \in CredIds :
    (/\ creds[c].stored /\ creds[d].stored
     /\ creds[c].isActive /\ creds[d].isActive
     /\ creds[c].userId = creds[d].userId
     /\ creds[c].provider = creds[d].provider)
    => c = d

\* C37: a deployment whose record has been saved eventually is in a terminal
\* state and stays in one
C37_EventuallyTerminal ==
  (status # "none") ~> [](status \in TerminalStatuses)

====
